---- MODULE Spec2Model ----
(***************************************************************************)
(* The window manager of the desktop shell (DesktopShell.jsx, Window.jsx): *)
(* the per-window state table, the z-order counter, the drag / resize      *)
(* interaction refs, the deferred layout pass, the content observer and    *)
(* the stored size preferences.                                            *)
(*                                                                         *)
(* One step of the model is one event handled to completion: the handler,  *)
(* the re-render it causes and the effects of that render (the refs that   *)
(* mirror the state, and the active-window effect).  The layout pass runs  *)
(* from requestAnimationFrame and is a step of its own.                    *)
(*                                                                         *)
(* Lengths are whole CSS pixels.  The code keeps floating-point values;    *)
(* the inputs below are chosen even so that the halvings of the cascade    *)
(* centre are exact, and the cascade offsets cos/sin * radius are rounded  *)
(* to the nearest pixel.                                                   *)
(***************************************************************************)
EXTENDS Integers, Sequences, FiniteSets, TLC

VARIABLES
    windowData,      \* useState: appId -> window record
    openWindows,     \* useState: ordered list of open app ids
    activeWindowId,  \* useState: the focused window id, or NoWindow
    zIndexCounter,   \* useRef(20)
    dragStateRef,    \* useRef(null): <<>> or <<[appId, offsetX, offsetY]>>
    resizeStateRef,  \* useRef(null): <<>> or <<[appId, direction, start...]>>
    localStorage,    \* appId -> the item stored under getWindowKey(appId)
    windowRefs       \* useRef({}): the ids whose window and content elements are mounted

vars == <<windowData, openWindows, activeWindowId, zIndexCounter,
          dragStateRef, resizeStateRef, localStorage, windowRefs>>

----------------------------------------------------------------------------
(* Bounds of the model. *)

\* The z-index counter is not advanced past MaxZ.
MaxZ == 23

----------------------------------------------------------------------------
(* Program constants. *)

WINDOW_MIN_WIDTH == 400
WINDOW_MIN_HEIGHT == 300
\* WINDOW_MAX_RATIO = 0.8, in percent
WINDOW_MAX_RATIO_PCT == 80
WINDOW_CONTENT_PADDING == 32
WINDOW_MARGIN == 20
\* phiRef = 1.618034, in millionths
PHI_MICRO == 1618034
\* the zIndex every window starts with, and the start of the counter
INITIAL_Z_INDEX == 10
INITIAL_Z_COUNTER == 20
\* the radius of the cascade spiral: min(140, 24 + index * 18)
CASCADE_MAX_RADIUS == 140
CASCADE_BASE_RADIUS == 24
CASCADE_STEP_RADIUS == 18

\* JavaScript null in a numeric field (size.width, size.height)
Null == -1

\* The number NaN, and a parsed JSON value that is truthy and no number
\* (a string such as "wide"), as values of a width or height.
NaN == -2
NonNumeric == -3

\* JavaScript null as a window id (activeWindowId)
NoWindow == "null"

\* The catalog: a two-app cut of the nine apps of `apps'.
Apps == {"home", "wallet"}

\* The app opened by the mount effect.
HomeApp == "home"

\* The eight resize handles of a window.
Directions == {"n", "s", "e", "w", "ne", "nw", "se", "sw"}

\* The handles the pointer takes hold of in Spec.
SessionDirections == {"e", "se", "nw"}

\* direction.includes(c)
includes(direction, c) ==
    CASE c = "n" -> direction \in {"n", "ne", "nw"}
      [] c = "s" -> direction \in {"s", "se", "sw"}
      [] c = "e" -> direction \in {"e", "ne", "se"}
      [] c = "w" -> direction \in {"w", "nw", "sw"}

----------------------------------------------------------------------------
(* Arithmetic. *)

Min2(a, b) == IF a <= b THEN a ELSE b
Max2(a, b) == IF a >= b THEN a ELSE b

\* Math.round(n / d) for d > 0: the nearest integer, halves rounded up.
RoundDiv(n, d) == (2 * n + d) \div (2 * d)

\* clamp = Math.min(Math.max(value, min), max)
\* Math.max and Math.min convert their arguments to numbers: a value that is
\* no number makes the result NaN.
clamp(value, min, max) ==
    IF value \in {NaN, NonNumeric} THEN NaN ELSE Min2(Max2(value, min), max)

\* !v of a number-or-null: null, 0 and NaN are falsy
Falsy(v) == v = Null \/ v = 0 \/ v = NaN

\* a ?? b
Coalesce(a, b) == IF a = Null THEN b ELSE a

NoSize == [width |-> Null, height |-> Null]

----------------------------------------------------------------------------
(* The environment: the layer rectangle, the pointer, the content boxes. *)

\* getBounds(): the rectangle of the window layer, right of the sidebar and
\* below the toolbar.  The layer is not resized during a run.
getBounds == [width |-> 800, height |-> 600, left |-> 60, top |-> 40]

\* Where a pointer-move takes the pointer (clientX, clientY): the top left
\* corner, the centre and the bottom right corner of the layer.
PointerPositions ==
    {[x |-> getBounds.left, y |-> getBounds.top],
     [x |-> getBounds.left + getBounds.width \div 2,
      y |-> getBounds.top + getBounds.height \div 2],
     [x |-> getBounds.left + getBounds.width,
      y |-> getBounds.top + getBounds.height]}

\* What the DOM reports for a window's content: scrollWidth, scrollHeight of
\* the content element and offsetHeight of the title bar.  Every app shows
\* content of this one measure.
ContentBoxes ==
    {[scrollWidth |-> 100, scrollHeight |-> 100, titleHeight |-> 40]}

getDefaultWindowSize == [width |-> WINDOW_MIN_WIDTH, height |-> WINDOW_MIN_HEIGHT]

getMaxWindowSize(bounds) ==
    [width  |-> Max2(WINDOW_MIN_WIDTH,
                     RoundDiv(bounds.width * WINDOW_MAX_RATIO_PCT, 100)),
     height |-> Max2(WINDOW_MIN_HEIGHT,
                     RoundDiv(bounds.height * WINDOW_MAX_RATIO_PCT, 100))]

\* The content-measured size of the layout pass (the else branch).
measuredSize(box, bounds) ==
    LET minSize == getDefaultWindowSize
        maxSize == getMaxWindowSize(bounds)
        width == clamp(Max2(box.scrollWidth + WINDOW_CONTENT_PADDING, minSize.width),
                       minSize.width, maxSize.width)
        desiredHeight == Max2(box.scrollHeight + box.titleHeight + WINDOW_CONTENT_PADDING,
                              minSize.height)
        goldenHeight == RoundDiv(width * 1000000, PHI_MICRO)
    IN  [width  |-> width,
         height |-> clamp(Max2(desiredHeight, goldenHeight),
                          minSize.height, maxSize.height)]

----------------------------------------------------------------------------
(* SizeStore: localStorage under getWindowKey(appId). *)

AbsentItem == [raw |-> "absent", width |-> Null, height |-> Null]
JsonItem(w, h) == [raw |-> "json", width |-> w, height |-> h]
\* Text that JSON.parse rejects, and the JSON text "null".
TextItem == [raw |-> "text", width |-> Null, height |-> Null]
NullItem == [raw |-> "null", width |-> Null, height |-> Null]

\* getStoredSize: null (NoSize) for a missing item, for text JSON.parse
\* rejects, and for a parsed value without a truthy width and height.
getStoredSize(storage, appId) ==
    LET item == storage[appId]
    IN  IF item.raw = "absent" THEN NoSize
        ELSE IF item.raw # "json" THEN NoSize
        ELSE IF Falsy(item.width) \/ Falsy(item.height) THEN NoSize
        ELSE [width |-> item.width, height |-> item.height]

\* saveWindowSize: sizes are whole pixels here, so Math.round keeps them.
saveWindowSize(storage, appId, size) ==
    IF Falsy(size.width) \/ Falsy(size.height) THEN storage
    ELSE [storage EXCEPT ![appId] = JsonItem(size.width, size.height)]

----------------------------------------------------------------------------
(* WindowRegistry: the state table and its updaters. *)

\* The record every app starts with.
InitialWindow ==
    [isOpen |-> FALSE, isMinimized |-> FALSE, isMaximized |-> FALSE,
     zIndex |-> INITIAL_Z_INDEX,
     position |-> [left |-> 0, top |-> 0],
     size |-> NoSize,
     userSized |-> FALSE, userPositioned |-> FALSE,
     needsLayout |-> FALSE,
     normalRect |-> <<>>]

\* openWindows.indexOf(appId): 0-based, -1 when absent
RECURSIVE indexFrom(_, _, _)
indexFrom(ow, appId, i) ==
    IF i > Len(ow) THEN -1
    ELSE IF ow[i] = appId THEN i - 1
    ELSE indexFrom(ow, appId, i + 1)

indexOf(ow, appId) == indexFrom(ow, appId, 1)

\* Math.cos(index * GOLDEN_ANGLE) and Math.sin(index * GOLDEN_ANGLE), in
\* millionths, for index 0..8 (GOLDEN_ANGLE = pi * (3 - sqrt 5)).
CosGolden(index) ==
    <<1000000, -737369, 87426, 608439, -984713, 843755, -259604, -460907, 939321>>[index + 1]
SinGolden(index) ==
    <<0, 675490, -996171, 793601, -174182, -536728, 965715, -887448, 343039>>[index + 1]

\* A radius that grows without the cap.
cascadeRadius_uncapped(index) ==
    IF index = 0 THEN 0 ELSE CASCADE_BASE_RADIUS + index * CASCADE_STEP_RADIUS

cascadeRadius(index) ==
    IF index = 0 THEN 0
    ELSE Min2(CASCADE_MAX_RADIUS, CASCADE_BASE_RADIUS + index * CASCADE_STEP_RADIUS)

\* A placement that cascades every window, user-positioned or not.
computePosition_alwaysCascade(wd, ow, appId, width, height, bounds) ==
    LET centerX == (bounds.width - width) \div 2
        centerY == (bounds.height - height) \div 2
        index == Max2(indexOf(ow, appId), 0)
        radius == cascadeRadius(index)
    IN  [left |-> clamp(centerX + RoundDiv(CosGolden(index) * radius, 1000000),
                        WINDOW_MARGIN, bounds.width - width - WINDOW_MARGIN),
         top  |-> clamp(centerY + RoundDiv(SinGolden(index) * radius, 1000000),
                        WINDOW_MARGIN, bounds.height - height - WINDOW_MARGIN)]

\* computePosition: the stored position of a user-positioned window, else
\* the cascade placement by the index in the list of open windows.
computePosition(wd, ow, appId, width, height, bounds) ==
    IF appId \in DOMAIN wd /\ wd[appId].userPositioned THEN wd[appId].position
    ELSE
        LET centerX == (bounds.width - width) \div 2
            centerY == (bounds.height - height) \div 2
            index == Max2(indexOf(ow, appId), 0)
            radius == cascadeRadius(index)
        IN  [left |-> IF width = NaN THEN NaN
                      ELSE clamp(centerX + RoundDiv(CosGolden(index) * radius, 1000000),
                                 WINDOW_MARGIN, bounds.width - width - WINDOW_MARGIN),
             top  |-> IF height = NaN THEN NaN
                      ELSE clamp(centerY + RoundDiv(SinGolden(index) * radius, 1000000),
                                 WINDOW_MARGIN, bounds.height - height - WINDOW_MARGIN)]

\* A counter that is read but not advanced.
nextZ_notAdvanced(zc) == zc

\* const nextZ = zIndexCounter.current + 1
nextZ(zc) == zc + 1

\* An open that appends the id whether or not the list holds it.
openAppList_alwaysAppended(ow, appId) == Append(ow, appId)

\* openApp: the setOpenWindows updater
openAppList(ow, appId) ==
    IF indexOf(ow, appId) >= 0 THEN ow ELSE Append(ow, appId)

\* An open that flags every window for layout.
openAppData_alwaysLayout(wd, zc, appId) ==
    IF appId \notin DOMAIN wd THEN wd
    ELSE [wd EXCEPT ![appId] =
            [@ EXCEPT !.isOpen = TRUE,
                      !.isMinimized = FALSE,
                      !.zIndex = nextZ(zc),
                      !.needsLayout = TRUE]]

\* An open that decides needsLayout from the two user flags alone.
openAppData_sizeNotTested(wd, zc, appId) ==
    IF appId \notin DOMAIN wd THEN wd
    ELSE LET data == wd[appId]
         IN  [wd EXCEPT ![appId] =
                [data EXCEPT !.isOpen = TRUE,
                             !.isMinimized = FALSE,
                             !.zIndex = nextZ(zc),
                             !.needsLayout = ~data.userSized \/ ~data.userPositioned]]

\* openApp: the setWindowData updater
openAppData(wd, zc, appId) ==
    IF appId \notin DOMAIN wd THEN wd
    ELSE LET data == wd[appId]
         IN  [wd EXCEPT ![appId] =
                [data EXCEPT !.isOpen = TRUE,
                             !.isMinimized = FALSE,
                             !.zIndex = nextZ(zc),
                             !.needsLayout = \/ ~data.userSized
                                             \/ ~data.userPositioned
                                             \/ Falsy(data.size.width)
                                             \/ Falsy(data.size.height)]]

openAppCounter(wd, zc, appId) ==
    IF appId \notin DOMAIN wd THEN zc ELSE nextZ(zc)

\* focusWindow: the guard of its updater
focusApplies(wd, appId) ==
    appId \in DOMAIN wd /\ wd[appId].isOpen /\ ~wd[appId].isMinimized

\* A focus that advances the counter and leaves the window where it is.
focusWindowData_notRaised(wd, zc, appId) == wd

\* focusWindow: the setWindowData updater
focusWindowData(wd, zc, appId) ==
    IF ~focusApplies(wd, appId) THEN wd
    ELSE [wd EXCEPT ![appId].zIndex = nextZ(zc)]

focusWindowCounter(wd, zc, appId) ==
    IF ~focusApplies(wd, appId) THEN zc ELSE nextZ(zc)

\* A close that keeps the snapshot of the normal geometry.
closeWindowData_rectKept(wd, appId) ==
    IF appId \notin DOMAIN wd THEN wd
    ELSE [wd EXCEPT ![appId] =
            [@ EXCEPT !.isOpen = FALSE, !.isMinimized = FALSE,
                      !.isMaximized = FALSE]]

\* A close that also forgets the geometry of the window.
closeWindowData_geometryReset(wd, appId) ==
    IF appId \notin DOMAIN wd THEN wd
    ELSE [wd EXCEPT ![appId] =
            [@ EXCEPT !.isOpen = FALSE, !.isMinimized = FALSE,
                      !.isMaximized = FALSE, !.normalRect = <<>>,
                      !.size = NoSize, !.userSized = FALSE]]

\* closeWindow: the setWindowData updater and the setOpenWindows filter
closeWindowData(wd, appId) ==
    IF appId \notin DOMAIN wd THEN wd
    ELSE [wd EXCEPT ![appId] =
            [@ EXCEPT !.isOpen = FALSE, !.isMinimized = FALSE,
                      !.isMaximized = FALSE, !.normalRect = <<>>]]

closeWindowList(ow, appId) == SelectSeq(ow, LAMBDA id : id # appId)

\* A minimize that does not test isOpen.
minimizeWindowData_closedToo(wd, appId) ==
    IF appId \notin DOMAIN wd THEN wd
    ELSE [wd EXCEPT ![appId].isMinimized = TRUE]

\* minimizeWindow: the setWindowData updater
minimizeWindowData(wd, appId) ==
    IF appId \notin DOMAIN wd \/ ~wd[appId].isOpen THEN wd
    ELSE [wd EXCEPT ![appId].isMinimized = TRUE]

\* A restore that takes the size back and leaves the window where the
\* maximize put it.
restoredWindow_positionKept(data) ==
    LET rect == data.normalRect[1]
    IN  [data EXCEPT !.isMaximized = FALSE,
                     !.size = [width |-> rect.width, height |-> rect.height],
                     !.userSized = TRUE,
                     !.userPositioned = TRUE,
                     !.normalRect = <<>>]

\* toggleMaximize, the branch of a maximized window with a normalRect
restoredWindow(data) ==
    LET rect == data.normalRect[1]
    IN  [data EXCEPT !.isMaximized = FALSE,
                     !.position = [left |-> rect.left, top |-> rect.top],
                     !.size = [width |-> rect.width, height |-> rect.height],
                     !.userSized = TRUE,
                     !.userPositioned = TRUE,
                     !.normalRect = <<>>]

\* toggleMaximize, the branch of a window that is not maximized
maximizedWindow(data, bounds) ==
    LET margin == WINDOW_MARGIN
        size == IF ~Falsy(data.size.width) THEN data.size ELSE getDefaultWindowSize
        normalRect == [left |-> data.position.left,
                       top |-> data.position.top,
                       width |-> size.width,
                       height |-> size.height]
    IN  [data EXCEPT
           !.isMaximized = TRUE,
           !.isMinimized = FALSE,
           !.position = [left |-> margin, top |-> margin],
           !.size = [width |-> Max2(bounds.width - margin * 2, WINDOW_MIN_WIDTH),
                     height |-> Max2(bounds.height - margin * 2, WINDOW_MIN_HEIGHT)],
           !.normalRect = <<normalRect>>]

\* toggleMaximize: the setWindowData updater (focusWindow follows it)
toggleMaximizeData(wd, appId, bounds) ==
    IF appId \notin DOMAIN wd \/ ~wd[appId].isOpen THEN wd
    ELSE LET data == wd[appId]
         IN  IF data.isMaximized
             THEN IF data.normalRect # <<>>
                  THEN [wd EXCEPT ![appId] = restoredWindow(data)]
                  ELSE [wd EXCEPT ![appId] =
                          [data EXCEPT !.isMaximized = FALSE,
                                       !.needsLayout = TRUE,
                                       !.normalRect = <<>>]]
             ELSE [wd EXCEPT ![appId] = maximizedWindow(data, bounds)]

\* An observer that does not look at userSized.
contentResizeData_userSizedIgnored(wd, appId) ==
    IF \/ appId \notin DOMAIN wd
       \/ ~wd[appId].isOpen
       \/ wd[appId].isMaximized
    THEN wd
    ELSE [wd EXCEPT ![appId].needsLayout = TRUE]

\* The ResizeObserver callback: the setWindowData updater for one entry
contentResizeData(wd, appId) ==
    IF \/ appId \notin DOMAIN wd
       \/ ~wd[appId].isOpen
       \/ wd[appId].isMaximized
       \/ wd[appId].userSized
    THEN wd
    ELSE [wd EXCEPT ![appId].needsLayout = TRUE]

\* The active-window effect: the open, non-minimized window of openWindows
\* with the greatest zIndex (the first one on a tie), from topZ = -Infinity.
RECURSIVE activeScan(_, _, _, _, _)
activeScan(ow, wd, i, topZ, nextActive) ==
    IF i > Len(ow) THEN nextActive
    ELSE LET id == ow[i]
         IN  IF id \notin DOMAIN wd \/ ~wd[id].isOpen \/ wd[id].isMinimized
             THEN activeScan(ow, wd, i + 1, topZ, nextActive)
             ELSE IF topZ = Null \/ wd[id].zIndex > topZ
                  THEN activeScan(ow, wd, i + 1, wd[id].zIndex, id)
                  ELSE activeScan(ow, wd, i + 1, topZ, nextActive)

\* The active window as the handler left it: the effect does not run.
activeWindowEffect_skipped(ow, wd, requested) == requested

\* The value of activeWindowId once the effect has run after a render in
\* which the handler requested `requested' (setActiveWindowId).
activeWindowEffect(ow, wd, requested) ==
    LET nextActive == activeScan(ow, wd, 1, Null, NoWindow)
    IN  IF nextActive # requested THEN nextActive ELSE requested

----------------------------------------------------------------------------
(* The DOM as the handlers read it. *)

\* The window elements receive pointer events while their window is open.
Displayed(wd, appId) == appId \in DOMAIN wd /\ wd[appId].isOpen

\* offsetWidth / offsetHeight of a window element: the styled size once the
\* size is resolved; before that the element wraps its content.
DomSizes(data) ==
    IF Falsy(data.size.width) \/ Falsy(data.size.height)
    THEN {measuredSize(box, getBounds) : box \in ContentBoxes}
    ELSE {data.size}

\* getBoundingClientRect() of a window element: the layer is its offset parent.
rectLeft(data, bounds) == bounds.left + data.position.left
rectTop(data, bounds) == bounds.top + data.position.top

\* Where the pointer goes down to drag: the middle of the title bar,
\* TitleGripDepth below the top edge of the window.
TitleGripDepth == 10
titleGripX(data, dom, bounds) == rectLeft(data, bounds) + dom.width \div 2
titleGripY(data, dom, bounds) == rectTop(data, bounds) + TitleGripDepth

\* Where the pointer goes down to resize: on the handle of `direction', at
\* the edge it moves and the middle of the other axis.
handleX(data, dom, direction, bounds) ==
    rectLeft(data, bounds) +
      (IF includes(direction, "e") THEN dom.width
       ELSE IF includes(direction, "w") THEN 0
       ELSE dom.width \div 2)
handleY(data, dom, direction, bounds) ==
    rectTop(data, bounds) +
      (IF includes(direction, "s") THEN dom.height
       ELSE IF includes(direction, "n") THEN 0
       ELSE dom.height \div 2)

\* event.button of a pointer-down: primary or secondary
Buttons == {0, 2}

----------------------------------------------------------------------------
(* InteractionController: the updaters of the pointer handlers. *)

\* handleDragStart / handleResizeStart: the early returns
startApplies(wd, appId, button) ==
    /\ button = 0
    /\ appId \in DOMAIN wd
    /\ ~wd[appId].isMaximized
    /\ ~wd[appId].isMinimized

\* handleDragStart: the session and the setWindowData updater
dragSession(appId, clientX, clientY, data, bounds) ==
    [appId |-> appId,
     offsetX |-> clientX - rectLeft(data, bounds),
     offsetY |-> clientY - rectTop(data, bounds)]

dragStartData(wd, appId) == [wd EXCEPT ![appId].userPositioned = TRUE]

\* handleResizeStart: the session and the setWindowData updater
resizeSession(appId, direction, clientX, clientY, data, dom) ==
    [appId |-> appId, direction |-> direction,
     startX |-> clientX, startY |-> clientY,
     startWidth |-> dom.width, startHeight |-> dom.height,
     startLeft |-> data.position.left, startTop |-> data.position.top]

resizeStartData(wd, appId) ==
    [wd EXCEPT ![appId].userSized = TRUE, ![appId].userPositioned = TRUE]

\* A drag branch that also commits the fallback size it clamped with.
dragMoveData_sizeFilled(wd, drag, clientX, clientY, bounds) ==
    IF drag.appId \notin DOMAIN wd THEN wd
    ELSE LET data == wd[drag.appId]
             width == Coalesce(data.size.width, WINDOW_MIN_WIDTH)
             height == Coalesce(data.size.height, WINDOW_MIN_HEIGHT)
             left == clamp(clientX - bounds.left - drag.offsetX,
                           WINDOW_MARGIN, bounds.width - width - WINDOW_MARGIN)
             top == clamp(clientY - bounds.top - drag.offsetY,
                          WINDOW_MARGIN, bounds.height - height - WINDOW_MARGIN)
         IN  [wd EXCEPT ![drag.appId].position = [left |-> left, top |-> top],
                        ![drag.appId].size = [width |-> width, height |-> height],
                        ![drag.appId].userPositioned = TRUE]

\* handleMouseMove, drag branch
dragMoveData(wd, drag, clientX, clientY, bounds) ==
    IF drag.appId \notin DOMAIN wd THEN wd
    ELSE LET data == wd[drag.appId]
             width == Coalesce(data.size.width, WINDOW_MIN_WIDTH)
             height == Coalesce(data.size.height, WINDOW_MIN_HEIGHT)
             left == clamp(clientX - bounds.left - drag.offsetX,
                           WINDOW_MARGIN, bounds.width - width - WINDOW_MARGIN)
             top == clamp(clientY - bounds.top - drag.offsetY,
                          WINDOW_MARGIN, bounds.height - height - WINDOW_MARGIN)
         IN  [wd EXCEPT ![drag.appId].position = [left |-> left, top |-> top],
                        ![drag.appId].userPositioned = TRUE]

\* handleMouseMove, resize branch: the geometry computed from the session
resizeGeometry(rs, clientX, clientY, bounds) ==
    LET minSize == getDefaultWindowSize
        maxSize == getMaxWindowSize(bounds)
        dx == clientX - rs.startX
        dy == clientY - rs.startY
        widthE == IF includes(rs.direction, "e")
                  THEN clamp(rs.startWidth + dx, minSize.width, maxSize.width)
                  ELSE rs.startWidth
        heightS == IF includes(rs.direction, "s")
                   THEN clamp(rs.startHeight + dy, minSize.height, maxSize.height)
                   ELSE rs.startHeight
        width == IF includes(rs.direction, "w")
                 THEN clamp(rs.startWidth - dx, minSize.width, maxSize.width)
                 ELSE widthE
        left == IF includes(rs.direction, "w")
                THEN clamp(rs.startLeft + dx, WINDOW_MARGIN,
                           bounds.width - width - WINDOW_MARGIN)
                ELSE rs.startLeft
        height == IF includes(rs.direction, "n")
                  THEN clamp(rs.startHeight - dy, minSize.height, maxSize.height)
                  ELSE heightS
        top == IF includes(rs.direction, "n")
               THEN clamp(rs.startTop + dy, WINDOW_MARGIN,
                          bounds.height - height - WINDOW_MARGIN)
               ELSE rs.startTop
    IN  [left |-> left, top |-> top, width |-> width, height |-> height]

resizeMoveData(wd, rs, clientX, clientY, bounds) ==
    LET g == resizeGeometry(rs, clientX, clientY, bounds)
    IN  [wd EXCEPT ![rs.appId].size = [width |-> g.width, height |-> g.height],
                   ![rs.appId].position = [left |-> g.left, top |-> g.top],
                   ![rs.appId].userSized = TRUE,
                   ![rs.appId].userPositioned = TRUE]

\* A pointer-up that stores the size of a maximized window as well.
mouseUpStorage_maximizedToo(storage, wd, resize) ==
    IF resize = <<>> THEN storage
    ELSE LET appId == resize[1].appId
         IN  IF appId \in DOMAIN wd
             THEN saveWindowSize(storage, appId, wd[appId].size)
             ELSE storage

\* handleMouseUp: what it leaves in localStorage
mouseUpStorage(storage, wd, resize) ==
    IF resize = <<>> THEN storage
    ELSE LET appId == resize[1].appId
         IN  IF appId \in DOMAIN wd /\ ~wd[appId].isMaximized
             THEN saveWindowSize(storage, appId, wd[appId].size)
             ELSE storage

----------------------------------------------------------------------------
(* LayoutEngine: the requestAnimationFrame pass. *)

\* The ids the effect collects: open windows flagged needsLayout
pendingLayout(ow, wd) ==
    SelectSeq(ow, LAMBDA id : id \in DOMAIN wd /\ wd[id].isOpen /\ wd[id].needsLayout)

SeqRange(seq) == {seq[i] : i \in 1..Len(seq)}

\* A pass that commits the stored size as it is, without the clamp.
layoutWindow_storedUnclamped(wd, ow, storage, appId, box, bounds) ==
    LET data == wd[appId]
        stored == getStoredSize(storage, appId)
        useStored == ~Falsy(stored.width) /\ ~Falsy(stored.height)
        size == IF useStored THEN stored ELSE measuredSize(box, bounds)
        position == computePosition(wd, ow, appId, size.width, size.height, bounds)
    IN  [data EXCEPT !.size = size,
                     !.position = position,
                     !.userSized = IF useStored THEN TRUE ELSE data.userSized,
                     !.needsLayout = FALSE]

\* The record the pass writes for one pending window whose content
\* measures `box'.
layoutWindow(wd, ow, storage, appId, box, bounds) ==
    LET data == wd[appId]
        stored == getStoredSize(storage, appId)
        minSize == getDefaultWindowSize
        maxSize == getMaxWindowSize(bounds)
        useStored == ~Falsy(stored.width) /\ ~Falsy(stored.height)
        size == IF useStored
                THEN [width |-> clamp(stored.width, minSize.width, maxSize.width),
                      height |-> clamp(stored.height, minSize.height, maxSize.height)]
                ELSE measuredSize(box, bounds)
        position == computePosition(wd, ow, appId, size.width, size.height, bounds)
    IN  [data EXCEPT !.size = size,
                     !.position = position,
                     !.userSized = IF useStored THEN TRUE ELSE data.userSized,
                     !.needsLayout = FALSE]

\* The pending ids whose window and content elements are mounted: the
\* pass returns early for the others.
mountedPending(ow, wd, refs) == SeqRange(pendingLayout(ow, wd)) \cap refs

\* A pass that measures the pending windows and commits nothing.
layoutData_nothingCommitted(wd, ow, storage, measure, bounds) == wd

\* The updater of the pass: every pending window that could be measured is
\* resolved against prev, the others are left as they are.
layoutData(wd, ow, storage, measure, bounds) ==
    LET pending == SeqRange(pendingLayout(ow, wd))
    IN  [a \in DOMAIN wd |->
           IF a \in pending /\ a \in DOMAIN measure
           THEN layoutWindow(wd, ow, storage, a, measure[a], bounds)
           ELSE wd[a]]

----------------------------------------------------------------------------
(* The state machine. *)

\* The state after construction and the mount effect openApp('home').
Init ==
    LET constructed == [a \in Apps |-> InitialWindow]
    IN  /\ windowData = openAppData(constructed, INITIAL_Z_COUNTER, HomeApp)
        /\ openWindows = openAppList(<<>>, HomeApp)
        /\ zIndexCounter = openAppCounter(constructed, INITIAL_Z_COUNTER, HomeApp)
        /\ activeWindowId = activeWindowEffect(openWindows, windowData, HomeApp)
        /\ dragStateRef = <<>>
        /\ resizeStateRef = <<>>
        /\ localStorage = [a \in Apps |-> AbsentItem]
        /\ windowRefs = Apps

\* A click on a sidebar icon.
OpenApp(appId) ==
    /\ zIndexCounter < MaxZ
    /\ openWindows' = openAppList(openWindows, appId)
    /\ windowData' = openAppData(windowData, zIndexCounter, appId)
    /\ zIndexCounter' = openAppCounter(windowData, zIndexCounter, appId)
    /\ activeWindowId' = activeWindowEffect(openWindows', windowData', appId)
    /\ UNCHANGED <<dragStateRef, resizeStateRef, localStorage, windowRefs>>

\* onFocus: a pointer-down on the window element.
FocusWindow(appId) ==
    /\ zIndexCounter < MaxZ
    /\ windowData' = focusWindowData(windowData, zIndexCounter, appId)
    /\ zIndexCounter' = focusWindowCounter(windowData, zIndexCounter, appId)
    /\ activeWindowId' = activeWindowEffect(openWindows, windowData', appId)
    /\ UNCHANGED <<openWindows, dragStateRef, resizeStateRef, localStorage, windowRefs>>

\* A close that also ends the sessions of the closed window.
CloseWindow_sessionEnded(appId) ==
    /\ windowData' = closeWindowData(windowData, appId)
    /\ openWindows' = closeWindowList(openWindows, appId)
    /\ activeWindowId' = activeWindowEffect(openWindows', windowData', activeWindowId)
    /\ dragStateRef' = SelectSeq(dragStateRef, LAMBDA d : d.appId # appId)
    /\ resizeStateRef' = SelectSeq(resizeStateRef, LAMBDA r : r.appId # appId)
    /\ UNCHANGED <<zIndexCounter, localStorage, windowRefs>>

\* onClose: the close button.
CloseWindow(appId) ==
    /\ windowData' = closeWindowData(windowData, appId)
    /\ openWindows' = closeWindowList(openWindows, appId)
    /\ activeWindowId' = activeWindowEffect(openWindows', windowData', activeWindowId)
    /\ UNCHANGED <<zIndexCounter, dragStateRef, resizeStateRef, localStorage, windowRefs>>

\* onMinimize: the minimize button.
MinimizeWindow(appId) ==
    /\ windowData' = minimizeWindowData(windowData, appId)
    /\ activeWindowId' = activeWindowEffect(openWindows, windowData', activeWindowId)
    /\ UNCHANGED <<openWindows, zIndexCounter, dragStateRef, resizeStateRef,
                   localStorage, windowRefs>>

\* onMaximize: the maximize button or a double click on the title bar;
\* the updater, then focusWindow.
ToggleMaximize(appId) ==
    /\ zIndexCounter < MaxZ
    /\ LET toggled == toggleMaximizeData(windowData, appId, getBounds)
       IN  /\ windowData' = focusWindowData(toggled, zIndexCounter, appId)
           /\ zIndexCounter' = focusWindowCounter(toggled, zIndexCounter, appId)
    /\ activeWindowId' = activeWindowEffect(openWindows, windowData', appId)
    /\ UNCHANGED <<openWindows, dragStateRef, resizeStateRef, localStorage, windowRefs>>

\* onDragStart: a primary or secondary pointer-down on the grip point of
\* the title bar of a displayed window.
HandleDragStart(appId, button) ==
    /\ zIndexCounter < MaxZ
    /\ Displayed(windowData, appId)
    /\ \E dom \in DomSizes(windowData[appId]) :
         LET clientX == titleGripX(windowData[appId], dom, getBounds)
             clientY == titleGripY(windowData[appId], dom, getBounds)
         IN  IF startApplies(windowData, appId, button)
             THEN LET started == dragStartData(windowData, appId)
                  IN  /\ dragStateRef' = <<dragSession(appId, clientX, clientY,
                                                       windowData[appId], getBounds)>>
                      /\ windowData' = focusWindowData(started, zIndexCounter, appId)
                      /\ zIndexCounter' = focusWindowCounter(started, zIndexCounter, appId)
                      /\ activeWindowId' =
                            activeWindowEffect(openWindows, windowData', appId)
             ELSE UNCHANGED <<windowData, zIndexCounter, activeWindowId, dragStateRef>>
    /\ UNCHANGED <<openWindows, resizeStateRef, localStorage, windowRefs>>

\* onResizeStart: a pointer-down on one of the eight handles of a displayed
\* window.
HandleResizeStart(appId, button, direction) ==
    /\ zIndexCounter < MaxZ
    /\ Displayed(windowData, appId)
    /\ \E dom \in DomSizes(windowData[appId]) :
         LET clientX == handleX(windowData[appId], dom, direction, getBounds)
             clientY == handleY(windowData[appId], dom, direction, getBounds)
         IN  IF startApplies(windowData, appId, button)
             THEN LET started == resizeStartData(windowData, appId)
                  IN  /\ resizeStateRef' =
                            <<resizeSession(appId, direction, clientX, clientY,
                                            windowData[appId], dom)>>
                      /\ windowData' = focusWindowData(started, zIndexCounter, appId)
                      /\ zIndexCounter' = focusWindowCounter(started, zIndexCounter, appId)
                      /\ activeWindowId' =
                            activeWindowEffect(openWindows, windowData', appId)
             ELSE UNCHANGED <<windowData, zIndexCounter, activeWindowId,
                              resizeStateRef>>
    /\ UNCHANGED <<openWindows, dragStateRef, localStorage, windowRefs>>

\* The document's mousemove listener.
HandleMouseMove(clientX, clientY) ==
    /\ IF dragStateRef # <<>>
       THEN /\ windowData' = dragMoveData(windowData, dragStateRef[1],
                                          clientX, clientY, getBounds)
       ELSE IF resizeStateRef = <<>>
       THEN /\ windowData' = windowData
       ELSE /\ windowData' = resizeMoveData(windowData, resizeStateRef[1],
                                            clientX, clientY, getBounds)
    /\ activeWindowId' = activeWindowEffect(openWindows, windowData', activeWindowId)
    /\ UNCHANGED <<openWindows, zIndexCounter, dragStateRef, resizeStateRef,
                   localStorage, windowRefs>>

\* The document's mouseup listener.
HandleMouseUp ==
    /\ localStorage' = mouseUpStorage(localStorage, windowData, resizeStateRef)
    /\ dragStateRef' = <<>>
    /\ resizeStateRef' = <<>>
    /\ UNCHANGED <<windowData, openWindows, activeWindowId, zIndexCounter, windowRefs>>

\* The frame callback of the layout effect: every pending window whose
\* elements are mounted measures its content and is resolved in one update.
LayoutPass ==
    /\ pendingLayout(openWindows, windowData) # <<>>
    /\ \E measure \in [mountedPending(openWindows, windowData, windowRefs) -> ContentBoxes] :
          windowData' = layoutData(windowData, openWindows, localStorage,
                                   measure, getBounds)
    /\ activeWindowId' = activeWindowEffect(openWindows, windowData', activeWindowId)
    /\ UNCHANGED <<openWindows, zIndexCounter, dragStateRef, resizeStateRef,
                   localStorage, windowRefs>>

\* A ResizeObserver notification for the content element of an observed
\* (open, mounted) window.
ContentResize(appId) ==
    /\ appId \in SeqRange(openWindows)
    /\ appId \in windowRefs
    /\ windowData' = contentResizeData(windowData, appId)
    /\ activeWindowId' = activeWindowEffect(openWindows, windowData', activeWindowId)
    /\ UNCHANGED <<openWindows, zIndexCounter, dragStateRef, resizeStateRef,
                   localStorage, windowRefs>>

Next ==
    \/ \E appId \in Apps : OpenApp(appId)
    \/ \E appId \in Apps : FocusWindow(appId)
    \/ \E appId \in Apps : CloseWindow(appId)
    \/ \E appId \in Apps : MinimizeWindow(appId)
    \/ \E appId \in Apps : ToggleMaximize(appId)
    \/ \E appId \in Apps, button \in Buttons : HandleDragStart(appId, button)
    \/ \E appId \in Apps, button \in Buttons, direction \in SessionDirections :
          HandleResizeStart(appId, button, direction)
    \/ \E p \in PointerPositions : HandleMouseMove(p.x, p.y)
    \/ HandleMouseUp
    \/ LayoutPass
    \/ \E appId \in Apps : ContentResize(appId)

Spec == Init /\ [][Next]_vars

----------------------------------------------------------------------------
(* Properties. *)

Resolved(data) == ~Falsy(data.size.width) /\ ~Falsy(data.size.height)

\* The four edge bounds of a rectangle inside the layer.
InsideBounds(left, top, width, height, bounds) ==
    /\ left >= WINDOW_MARGIN
    /\ top >= WINDOW_MARGIN
    /\ left + width <= bounds.width - WINDOW_MARGIN
    /\ top + height <= bounds.height - WINDOW_MARGIN

WindowInsideBounds(data, bounds) ==
    InsideBounds(data.position.left, data.position.top,
                 data.size.width, data.size.height, bounds)

PointerMoveStep == \E p \in PointerPositions : HandleMouseMove(p.x, p.y)

\* C1: after every pointer-move of a drag session or of a resize session
\* whose start geometry satisfied the four edge bounds, the targeted window,
\* while not maximized, satisfies the four edge bounds.
C1_BoundsAfterPointerMove ==
    [][PointerMoveStep =>
         /\ dragStateRef # <<>> =>
              LET appId == dragStateRef[1].appId
              IN  (/\ Resolved(windowData[appId])
                   /\ WindowInsideBounds(windowData[appId], getBounds)
                   /\ ~windowData'[appId].isMaximized)
                  => WindowInsideBounds(windowData'[appId], getBounds)
         /\ (dragStateRef = <<>> /\ resizeStateRef # <<>>) =>
              LET rs == resizeStateRef[1]
              IN  (/\ InsideBounds(rs.startLeft, rs.startTop,
                                   rs.startWidth, rs.startHeight, getBounds)
                   /\ ~windowData'[rs.appId].isMaximized)
                  => WindowInsideBounds(windowData'[rs.appId], getBounds)
      ]_vars

\* C2: every zIndex that a step assigns is greater than the counter before
\* the step, which bounds every zIndex assigned so far, and the counter is
\* advanced to it; the zIndex of a window never decreases.
C2_ZIndexMonotonic ==
    [][/\ zIndexCounter' >= zIndexCounter
       /\ \A a \in Apps :
            /\ windowData[a].zIndex <= zIndexCounter
            /\ windowData'[a].zIndex <= zIndexCounter'
            /\ windowData'[a].zIndex >= windowData[a].zIndex
            /\ windowData'[a].zIndex # windowData[a].zIndex =>
                 /\ windowData'[a].zIndex > zIndexCounter
                 /\ windowData'[a].zIndex = zIndexCounter'
      ]_vars

\* C2 witness: the counter has been advanced to MaxZ, the window assigned
\* last holds it, and another window holds an earlier assigned zIndex.
C2_Witness ==
    \E a, b \in Apps :
        /\ a # b
        /\ zIndexCounter = MaxZ
        /\ windowData[a].zIndex = zIndexCounter
        /\ windowData[b].zIndex > INITIAL_Z_COUNTER
        /\ windowData[b].zIndex < windowData[a].zIndex

VisibleWindows == {a \in Apps : windowData[a].isOpen /\ ~windowData[a].isMinimized}

\* C3: the focused window is the open, non-minimized window with the
\* greatest zIndex, and there is none exactly when no window is open and
\* not minimized.
C3_FocusedIsTopVisible ==
    IF VisibleWindows = {}
    THEN activeWindowId = NoWindow
    ELSE /\ activeWindowId \in VisibleWindows
         /\ \A b \in VisibleWindows \ {activeWindowId} :
               windowData[b].zIndex < windowData[activeWindowId].zIndex

\* C3 witness: the focused window is not the window with the greatest
\* zIndex, which is open and minimized.
C3_Witness ==
    \E b \in Apps :
        /\ activeWindowId \in Apps
        /\ windowData[b].isOpen /\ windowData[b].isMinimized
        /\ windowData[b].zIndex > windowData[activeWindowId].zIndex

\* The window `appId' after toggleMaximize(appId) is called in the state a
\* step leads to.
ToggledAgain(appId) ==
    LET toggled == toggleMaximizeData(windowData', appId, getBounds)
    IN  focusWindowData(toggled, zIndexCounter', appId)[appId]

\* C4 as claimed: toggleMaximize on an open, non-maximized window and then
\* toggleMaximize again restores position and size to the values before the
\* first call.
C4_RoundTripAnyWindow ==
    [][\A a \in Apps :
         (/\ ToggleMaximize(a)
          /\ windowData[a].isOpen
          /\ ~windowData[a].isMaximized)
         => /\ windowData'[a].isMaximized
            /\ ~ToggledAgain(a).isMaximized
            /\ ToggledAgain(a).position = windowData[a].position
            /\ ToggledAgain(a).size = windowData[a].size
      ]_vars

\* C4 as amended: toggleMaximize on an open, non-maximized window whose size
\* is resolved and then toggleMaximize again restores position and size to
\* the values before the first call.
C4_RoundTripResolved ==
    [][\A a \in Apps :
         (/\ ToggleMaximize(a)
          /\ windowData[a].isOpen
          /\ ~windowData[a].isMaximized
          /\ Resolved(windowData[a]))
         => /\ windowData'[a].isMaximized
            /\ ~ToggledAgain(a).isMaximized
            /\ ToggledAgain(a).position = windowData[a].position
            /\ ToggledAgain(a).size = windowData[a].size
      ]_vars

\* C4 witness: a window is maximized and holds in normalRect the geometry
\* that a layout pass or a pointer session gave it.
C4_Witness ==
    \E a \in Apps :
        /\ windowData[a].isMaximized
        /\ windowData[a].normalRect # <<>>
        /\ windowData[a].normalRect[1].left >= WINDOW_MARGIN
        /\ windowData[a].normalRect[1].width >= WINDOW_MIN_WIDTH
        /\ windowData[a].size # [width |-> windowData[a].normalRect[1].width,
                                 height |-> windowData[a].normalRect[1].height]

\* C5: a ResizeObserver notification for a user-sized window changes neither
\* its size nor its needsLayout; a notification sets needsLayout only for a
\* window that is open, not maximized and not user-sized, and changes
\* nothing else.
C5_ObserverRespectsUserSized ==
    [][\A a \in Apps :
         ContentResize(a) =>
           /\ windowData[a].userSized =>
                /\ windowData'[a].size = windowData[a].size
                /\ windowData'[a].needsLayout = windowData[a].needsLayout
           /\ windowData'[a].needsLayout # windowData[a].needsLayout =>
                /\ windowData'[a].needsLayout
                /\ windowData[a].isOpen
                /\ ~windowData[a].isMaximized
                /\ ~windowData[a].userSized
           /\ windowData' = [windowData EXCEPT
                               ![a].needsLayout = windowData'[a].needsLayout]
      ]_vars

\* C5 witness: an observed window is open, not maximized, user-sized with a
\* resolved size, and not flagged for layout.
C5_Witness ==
    \E a \in Apps :
        /\ a \in SeqRange(openWindows)
        /\ windowData[a].isOpen
        /\ ~windowData[a].isMaximized
        /\ windowData[a].userSized
        /\ Resolved(windowData[a])
        /\ ~windowData[a].needsLayout

\* The size of window `appId' is one that the resize session in progress on
\* it is producing: the window is user-sized, not maximized, and resolved.
SizedByResize(appId) ==
    /\ resizeStateRef # <<>>
    /\ resizeStateRef[1].appId = appId
    /\ windowData[appId].userSized
    /\ ~windowData[appId].isMaximized
    /\ Resolved(windowData[appId])

\* C6: a layout pass that runs while a window is user-sized leaves the size
\* that the user's resize produced as it is.
C6_LayoutKeepsUserSize ==
    [][LayoutPass =>
         \A a \in Apps : SizedByResize(a) => windowData'[a].size = windowData[a].size
      ]_vars

\* C7: a maximized window is open and not minimized.
C7_MaximizedOpenNotMinimized ==
    \A a \in Apps :
        windowData[a].isMaximized =>
            windowData[a].isOpen /\ ~windowData[a].isMinimized

\* C8: every open, non-maximized window with a resolved size has its width
\* in [minWidth, maxWidth] and its height in [minHeight, maxHeight].
C8_SizeWithinLimits ==
    \A a \in Apps :
        (windowData[a].isOpen /\ ~windowData[a].isMaximized /\ Resolved(windowData[a]))
        => /\ windowData[a].size.width >= getDefaultWindowSize.width
           /\ windowData[a].size.width <= getMaxWindowSize(getBounds).width
           /\ windowData[a].size.height >= getDefaultWindowSize.height
           /\ windowData[a].size.height <= getMaxWindowSize(getBounds).height

\* C9: dragStateRef and resizeStateRef are never both non-null.
C9_AtMostOneSession ==
    ~(dragStateRef # <<>> /\ resizeStateRef # <<>>)

PointerDownStep ==
    \/ \E a \in Apps, button \in Buttons : HandleDragStart(a, button)
    \/ \E a \in Apps, button \in Buttons, direction \in SessionDirections :
          HandleResizeStart(a, button, direction)

\* C10: a pointer-down during a session leaves the session that drives the
\* pointer-moves as it is: a drag session is unchanged, and a resize session
\* is unchanged with no drag session put before it.
C10_PointerDownKeepsSession ==
    [][PointerDownStep =>
         /\ dragStateRef # <<>> => dragStateRef' = dragStateRef
         /\ (dragStateRef = <<>> /\ resizeStateRef # <<>>) =>
              /\ resizeStateRef' = resizeStateRef
              /\ dragStateRef' = <<>>
      ]_vars

\* C11: on every pointer-move of a resize session whose start geometry is
\* inside the bounds, the session's window keeps what its direction does not
\* name: without "w" the left edge stays, without "n" the top edge stays,
\* without "e" and "w" the width stays, without "n" and "s" the height
\* stays; with "w" the right edge (left + width) stays at its start value
\* and with "n" the bottom edge (top + height) stays at its start value.
C11_DirectionIsolation ==
    [][(PointerMoveStep /\ dragStateRef = <<>> /\ resizeStateRef # <<>>) =>
         LET rs == resizeStateRef[1]
             after == windowData'[rs.appId]
         IN  InsideBounds(rs.startLeft, rs.startTop,
                          rs.startWidth, rs.startHeight, getBounds)
             => /\ ~includes(rs.direction, "w") =>
                     after.position.left = rs.startLeft
                /\ ~includes(rs.direction, "n") =>
                     after.position.top = rs.startTop
                /\ (~includes(rs.direction, "e") /\ ~includes(rs.direction, "w")) =>
                     after.size.width = rs.startWidth
                /\ (~includes(rs.direction, "n") /\ ~includes(rs.direction, "s")) =>
                     after.size.height = rs.startHeight
                /\ includes(rs.direction, "w") =>
                     after.position.left + after.size.width
                        = rs.startLeft + rs.startWidth
                /\ includes(rs.direction, "n") =>
                     after.position.top + after.size.height
                        = rs.startTop + rs.startHeight
      ]_vars

----------------------------------------------------------------------------
(* The registry operations called with an id outside the catalog. *)

\* An id that `apps' does not list.
UnknownApp == "ghost"

\* handleDragStart / handleResizeStart called for an id without a window:
\* the early return on a missing windowDataRef entry.
PointerDownNoWindow(appId, button) ==
    /\ appId \notin DOMAIN windowData
    /\ UNCHANGED vars

UnknownIdStep ==
    \/ OpenApp(UnknownApp)
    \/ FocusWindow(UnknownApp)
    \/ CloseWindow(UnknownApp)
    \/ MinimizeWindow(UnknownApp)
    \/ ToggleMaximize(UnknownApp)
    \/ \E button \in Buttons : PointerDownNoWindow(UnknownApp, button)

NextAnyId == Next \/ UnknownIdStep

SpecAnyId == Init /\ [][NextAnyId]_vars

\* C12: a registry operation called with an id that is not in the catalog
\* leaves the window table, the list of open windows, the z-index counter,
\* the active window and the interaction sessions unchanged.
C12_UnknownIdNoOp ==
    [][UnknownIdStep =>
         UNCHANGED <<windowData, openWindows, zIndexCounter, activeWindowId,
                     dragStateRef, resizeStateRef>>
      ]_vars

\* C13: closeWindow(id) sets isOpen, isMinimized and isMaximized to false
\* and normalRect to null, and leaves position, size, userSized and
\* userPositioned of that window and every other window unchanged.
C13_CloseFrame ==
    [][\A a \in Apps :
         CloseWindow(a) =>
           /\ ~windowData'[a].isOpen
           /\ ~windowData'[a].isMinimized
           /\ ~windowData'[a].isMaximized
           /\ windowData'[a].normalRect = <<>>
           /\ windowData'[a].position = windowData[a].position
           /\ windowData'[a].size = windowData[a].size
           /\ windowData'[a].userSized = windowData[a].userSized
           /\ windowData'[a].userPositioned = windowData[a].userPositioned
           /\ \A b \in Apps \ {a} : windowData'[b] = windowData[b]
      ]_vars

\* C13 witness: a closed window that keeps a resolved size, its position and
\* its user flags from the time it was open.
C13_Witness ==
    \E a \in Apps :
        /\ ~windowData[a].isOpen
        /\ indexOf(openWindows, a) < 0
        /\ Resolved(windowData[a])
        /\ windowData[a].userSized
        /\ windowData[a].userPositioned
        /\ windowData[a].position.left >= WINDOW_MARGIN
        /\ windowData[a].normalRect = <<>>

\* C14: openApp(id) on a known id sets isOpen, clears isMinimized, assigns
\* zIndexCounter + 1, a zIndex above every other window's, and sets
\* needsLayout to exactly (not userSized, or not userPositioned, or size
\* unresolved).
C14_OpenAppEffect ==
    [][\A a \in Apps :
         OpenApp(a) =>
           /\ windowData'[a].isOpen
           /\ ~windowData'[a].isMinimized
           /\ windowData'[a].zIndex = zIndexCounter + 1
           /\ zIndexCounter' = zIndexCounter + 1
           /\ \A b \in Apps \ {a} : windowData'[b].zIndex < windowData'[a].zIndex
           /\ windowData'[a].needsLayout
                 = (\/ ~windowData[a].userSized
                    \/ ~windowData[a].userPositioned
                    \/ ~Resolved(windowData[a]))
           /\ indexOf(openWindows', a) >= 0
      ]_vars

\* C14 witness: a window that was user-sized and user-positioned before its
\* first layout pass, with no stored size, is open and not flagged for
\* layout while it keeps the size of its resize: openApp took the flag off.
C14_Witness ==
    \E a \in Apps :
        /\ windowData[a].isOpen
        /\ windowData[a].userSized
        /\ windowData[a].userPositioned
        /\ Resolved(windowData[a])
        /\ ~windowData[a].needsLayout
        /\ ~windowData[a].isMaximized
        /\ windowData[a].position.left = 0
        /\ windowData[a].size.width > WINDOW_MIN_WIDTH
        /\ localStorage[a] = AbsentItem

\* C15: minimizeWindow(id) changes nothing when the window is not open; when
\* it is open it sets isMinimized and leaves every other field of the
\* window, every other window, the counter, the list of open windows, the
\* sessions and the stored sizes unchanged.
C15_MinimizeFrame ==
    [][\A a \in Apps :
         MinimizeWindow(a) =>
           /\ ~windowData[a].isOpen => UNCHANGED vars
           /\ windowData[a].isOpen =>
                windowData' = [windowData EXCEPT ![a].isMinimized = TRUE]
           /\ windowData'[a].zIndex = windowData[a].zIndex
           /\ windowData'[a].position = windowData[a].position
           /\ windowData'[a].size = windowData[a].size
           /\ windowData'[a].isMaximized = windowData[a].isMaximized
           /\ \A b \in Apps \ {a} : windowData'[b] = windowData[b]
           /\ UNCHANGED <<openWindows, zIndexCounter, dragStateRef,
                          resizeStateRef, localStorage, windowRefs>>
      ]_vars

\* C15 witness: an open window is minimized and keeps a resolved geometry,
\* while another window was never opened.
C15_Witness ==
    \E a, b \in Apps :
        /\ windowData[a].isOpen
        /\ windowData[a].isMinimized
        /\ Resolved(windowData[a])
        /\ activeWindowId # a
        /\ ~windowData[b].isOpen
        /\ ~windowData[b].isMinimized

\* C16: after toggleMaximize on an open window, maximizing or restoring,
\* minimized or not, the window has the newly assigned zIndex, greater than
\* every other window's, and is the focused window.
C16_ToggleMaximizeFocuses ==
    [][\A a \in Apps :
         (ToggleMaximize(a) /\ windowData[a].isOpen) =>
           /\ windowData'[a].zIndex = zIndexCounter + 1
           /\ \A b \in Apps \ {a} : windowData'[b].zIndex < windowData'[a].zIndex
           /\ activeWindowId' = a
      ]_vars

\* C17: normalRect is non-null exactly when isMaximized is true.
C17_NormalRectIffMaximized ==
    \A a \in Apps : (windowData[a].normalRect # <<>>) <=> windowData[a].isMaximized

\* C17 witness: one window is maximized with its snapshot, and another was
\* closed while it was resolved and has neither.
C17_Witness ==
    \E a, b \in Apps :
        /\ windowData[a].isMaximized
        /\ windowData[a].normalRect # <<>>
        /\ ~windowData[b].isOpen
        /\ windowData[b].zIndex > INITIAL_Z_COUNTER
        /\ windowData[b].normalRect = <<>>

\* C18: the stored sizes change only on a pointer-up that ends a resize
\* session on a window that is not maximized, and then only the entry of
\* that window's kind changes, to the window's size.
C18_StoredSizeWrites ==
    [][localStorage' # localStorage =>
         /\ HandleMouseUp
         /\ resizeStateRef # <<>>
         /\ LET appId == resizeStateRef[1].appId
            IN  /\ ~windowData[appId].isMaximized
                /\ localStorage' =
                      [localStorage EXCEPT
                         ![appId] = JsonItem(windowData[appId].size.width,
                                             windowData[appId].size.height)]
      ]_vars

\* C18 witness: a size is stored, no session is left, and a window is
\* maximized.
C18_Witness ==
    \E a, b \in Apps :
        /\ localStorage[a] # AbsentItem
        /\ resizeStateRef = <<>>
        /\ dragStateRef = <<>>
        /\ windowData[b].isMaximized

----------------------------------------------------------------------------
(* The cascade over the whole catalog: every window of an opening order is
   opened before the first layout pass runs. *)

\* The ids of `apps', in catalog order.
Catalog ==
    <<"home", "wallet", "utxos", "txforge", "seal", "examples", "reveal",
      "scrolls", "settings">>

CatalogIds == {Catalog[i] : i \in 1..Len(Catalog)}

\* The opening orders: home, which the mount effect opens, then the first
\* k of the other ids taken in catalog order from any of them onwards.
OpenOrders ==
    LET others == Tail(Catalog)
        n == Len(others)
    IN  {<<HomeApp>> \o [i \in 1..k |-> others[((r + i - 2) % n) + 1]] :
            r \in 1..n, k \in 0..n}

\* openApp called for order[i], order[i + 1], ... on the registry `reg'.
RECURSIVE openAll(_, _, _)
openAll(reg, order, i) ==
    IF i > Len(order) THEN reg
    ELSE openAll([wd |-> openAppData(reg.wd, reg.zc, order[i]),
                  zc |-> openAppCounter(reg.wd, reg.zc, order[i]),
                  ow |-> openAppList(reg.ow, order[i])],
                 order, i + 1)

CascadeInit ==
    \E order \in OpenOrders :
        LET constructed == [wd |-> [a \in CatalogIds |-> InitialWindow],
                            zc |-> INITIAL_Z_COUNTER,
                            ow |-> <<>>]
            opened == openAll(constructed, order, 1)
        IN  /\ windowData = opened.wd
            /\ openWindows = opened.ow
            /\ zIndexCounter = opened.zc
            /\ activeWindowId =
                  activeWindowEffect(opened.ow, opened.wd, order[Len(order)])
            /\ dragStateRef = <<>>
            /\ resizeStateRef = <<>>
            /\ localStorage = [a \in CatalogIds |-> AbsentItem]
            /\ windowRefs = CatalogIds

NextCascade == LayoutPass

SpecCascade == CascadeInit /\ [][NextCascade]_vars

\* C20: the layout pass places a window that is not userPositioned by its
\* index i in the list of open windows: at the centre of the bounds for
\* i = 0, and at the centre displaced by the radius min(140, 24 + 18 * i)
\* along the golden angle for i >= 1, and clears needsLayout; with bounds
\* 800x600 the window opened first and alone resolves to (200,150), 400x300.
C20_CascadePlacement ==
    [][LayoutPass =>
         /\ \A a \in DOMAIN windowData :
              (/\ windowData[a].isOpen
               /\ windowData[a].needsLayout
               /\ indexOf(openWindows, a) >= 0
               /\ ~windowData[a].userPositioned)
              => LET i == indexOf(openWindows, a)
                     after == windowData'[a]
                     centerX == (getBounds.width - after.size.width) \div 2
                     centerY == (getBounds.height - after.size.height) \div 2
                     radius == IF i = 0 THEN 0 ELSE Min2(140, 24 + 18 * i)
                 IN  /\ ~after.needsLayout
                     /\ i = 0 =>
                          after.position = [left |-> centerX, top |-> centerY]
                     /\ after.position.left =
                          clamp(centerX + RoundDiv(CosGolden(i) * radius, 1000000),
                                WINDOW_MARGIN,
                                getBounds.width - after.size.width - WINDOW_MARGIN)
                     /\ after.position.top =
                          clamp(centerY + RoundDiv(SinGolden(i) * radius, 1000000),
                                WINDOW_MARGIN,
                                getBounds.height - after.size.height - WINDOW_MARGIN)
         /\ (openWindows = <<HomeApp>> /\ ~windowData[HomeApp].userPositioned)
            => /\ windowData'[HomeApp].position = [left |-> 200, top |-> 150]
               /\ windowData'[HomeApp].size = [width |-> 400, height |-> 300]
               /\ ~windowData'[HomeApp].needsLayout
      ]_vars

\* C20 witness: the nine windows are laid out; the first one opened is at
\* the centre and the ninth, whose radius is capped at 140, is at (332,198).
C20_Witness ==
    /\ Len(openWindows) = Len(Catalog)
    /\ \A a \in DOMAIN windowData : windowData[a].isOpen /\ ~windowData[a].needsLayout
    /\ windowData[openWindows[1]].position = [left |-> 200, top |-> 150]
    /\ windowData[openWindows[Len(Catalog)]].position = [left |-> 332, top |-> 198]
    /\ windowData[openWindows[Len(Catalog)]].size = [width |-> 400, height |-> 300]

----------------------------------------------------------------------------
(* Placement, storage and frame properties. *)

\* The window was placed by a layout pass and never by the user.
AutoPlaced(data) ==
    /\ data.isOpen
    /\ ~data.needsLayout
    /\ ~data.userPositioned
    /\ ~data.isMaximized
    /\ Resolved(data)

\* C21: two windows that are open at the same time, were both positioned by
\* the cascade (not userPositioned) and have the same size do not have
\* identical positions.
C21_NoExactOverlap ==
    \A a, b \in DOMAIN windowData :
        (/\ a # b
         /\ AutoPlaced(windowData[a])
         /\ AutoPlaced(windowData[b])
         /\ windowData[a].size = windowData[b].size)
        => windowData[a].position # windowData[b].position

----------------------------------------------------------------------------
(* The stored sizes as the layout pass may find them: localStorage outlives
   the page, so the first pass reads whatever an earlier session or another
   script left under the keys. *)

StoredItems ==
    {AbsentItem, TextItem, NullItem,
     JsonItem(Null, 350), JsonItem(500, 0), JsonItem(NonNumeric, 350),
     JsonItem(500, 350), JsonItem(900, 100)}

StorageInit ==
    LET constructed == [a \in Apps |-> InitialWindow]
    IN  /\ windowData = openAppData(constructed, INITIAL_Z_COUNTER, HomeApp)
        /\ openWindows = openAppList(<<>>, HomeApp)
        /\ zIndexCounter = openAppCounter(constructed, INITIAL_Z_COUNTER, HomeApp)
        /\ activeWindowId = activeWindowEffect(openWindows, windowData, HomeApp)
        /\ dragStateRef = <<>>
        /\ resizeStateRef = <<>>
        /\ localStorage \in [Apps -> StoredItems]
        /\ windowRefs = Apps

NextStorage ==
    \/ \E appId \in Apps : OpenApp(appId)
    \/ \E appId \in Apps : CloseWindow(appId)
    \/ \E appId \in Apps : ContentResize(appId)
    \/ LayoutPass

SpecStorage == StorageInit /\ [][NextStorage]_vars

\* A stored item that holds no usable preference: no item, text that does
\* not parse, or a parsed value without a positive numeric width and height.
Unusable(item) ==
    \/ item.raw # "json"
    \/ item.width \in {Null, 0, NaN, NonNumeric}
    \/ item.height \in {Null, 0, NaN, NonNumeric}

\* The window is resolved by the layout pass of this step.
LaidOutNow(appId) ==
    /\ LayoutPass
    /\ windowData[appId].isOpen
    /\ windowData[appId].needsLayout
    /\ indexOf(openWindows, appId) >= 0

\* C22: a layout pass that finds no usable stored size for a window sizes it
\* from its measured content and leaves userSized as it was.
C22_CorruptStoredSizeIsAbsent ==
    [][\A a \in Apps :
         (LaidOutNow(a) /\ Unusable(localStorage[a])) =>
           /\ \E box \in ContentBoxes :
                 windowData'[a].size = measuredSize(box, getBounds)
           /\ windowData'[a].userSized = windowData[a].userSized
           /\ ~windowData'[a].needsLayout
      ]_vars

\* C23: a layout pass leaves the position of every window whose
\* userPositioned flag is true unchanged, whatever size it commits.
C23_LayoutKeepsUserPosition ==
    [][LayoutPass =>
         \A a \in Apps :
            windowData[a].userPositioned
            => windowData'[a].position = windowData[a].position
      ]_vars

\* C23 witness: a window that was user-positioned before its first layout
\* pass has been sized by the pass and is still where it was.
C23_Witness ==
    \E a \in Apps :
        /\ windowData[a].isOpen
        /\ windowData[a].userPositioned
        /\ ~windowData[a].userSized
        /\ ~windowData[a].needsLayout
        /\ ~windowData[a].isMaximized
        /\ Resolved(windowData[a])
        /\ windowData[a].position = [left |-> 0, top |-> 0]

\* C24: a layout pass that resolves a window whose kind has a usable stored
\* size commits that size clamped per axis to [400, 640] x [300, 480] (the
\* limits of the 800x600 bounds), sets userSized and clears needsLayout;
\* a later content-resize notification leaves such a window as it is.
C24_StoredSizeLayout ==
    [][\A a \in Apps :
         /\ (LaidOutNow(a) /\ ~Unusable(localStorage[a])) =>
              /\ windowData'[a].size =
                    [width  |-> Min2(Max2(localStorage[a].width, 400), 640),
                     height |-> Min2(Max2(localStorage[a].height, 300), 480)]
              /\ windowData'[a].userSized
              /\ ~windowData'[a].needsLayout
         /\ (ContentResize(a) /\ windowData[a].userSized) =>
              windowData'[a] = windowData[a]
      ]_vars

\* C24 witness: a window holds the stored size 900x100 clamped to 640x300,
\* is user-sized and is not flagged for layout.
C24_Witness ==
    \E a \in Apps :
        /\ localStorage[a] = JsonItem(900, 100)
        /\ windowData[a].isOpen
        /\ windowData[a].size = [width |-> 640, height |-> 300]
        /\ windowData[a].userSized
        /\ ~windowData[a].needsLayout


----------------------------------------------------------------------------
(* The shell behind the landing page: while the layer is public the shell
   renders LandingPage and none of the window elements is mounted. *)

\* handleLogin: unlock leaves the public layer, the shell renders every
\* Window and the ref callbacks fill windowRefs.
HandleLogin ==
    /\ windowRefs = {}
    /\ windowRefs' = DOMAIN windowData
    /\ UNCHANGED <<windowData, openWindows, activeWindowId, zIndexCounter,
                   dragStateRef, resizeStateRef, localStorage>>

\* lock (the toolbar logout button): back to the public layer, the window
\* elements are unmounted and the ref callbacks clear windowRefs.
Lock ==
    /\ windowRefs # {}
    /\ windowRefs' = {}
    /\ UNCHANGED <<windowData, openWindows, activeWindowId, zIndexCounter,
                   dragStateRef, resizeStateRef, localStorage>>

\* The state after construction and the mount effect on the public layer.
MountInit ==
    LET constructed == [a \in Apps |-> InitialWindow]
    IN  /\ windowData = openAppData(constructed, INITIAL_Z_COUNTER, HomeApp)
        /\ openWindows = openAppList(<<>>, HomeApp)
        /\ zIndexCounter = openAppCounter(constructed, INITIAL_Z_COUNTER, HomeApp)
        /\ activeWindowId = activeWindowEffect(openWindows, windowData, HomeApp)
        /\ dragStateRef = <<>>
        /\ resizeStateRef = <<>>
        /\ localStorage = [a \in Apps |-> AbsentItem]
        /\ windowRefs = {}

\* The launcher, the window buttons and the observer exist only while the
\* desktop is rendered; the frame callback runs on either layer.
NextMount ==
    \/ HandleLogin
    \/ Lock
    \/ windowRefs # {} /\ \E appId \in Apps : OpenApp(appId)
    \/ windowRefs # {} /\ \E appId \in Apps : CloseWindow(appId)
    \/ windowRefs # {} /\ \E appId \in Apps : MinimizeWindow(appId)
    \/ \E appId \in Apps : ContentResize(appId)
    \/ LayoutPass

\* requestAnimationFrame runs the requested callback on the next frame.
SpecMount == MountInit /\ [][NextMount]_vars /\ WF_vars(LayoutPass)

AwaitsLayout(a) == windowData[a].isOpen /\ windowData[a].needsLayout

\* C25: an open window with needsLayout is eventually resolved: a pass that
\* finds its elements unmounted leaves the window as it is, a pass stays
\* requested while the window waits, and once the elements are mounted the
\* pass clears needsLayout unless the window is closed (or unmounted) first.
C25_PendingLayoutResolved ==
    /\ [][\A a \in Apps :
            (LayoutPass /\ AwaitsLayout(a) /\ a \notin windowRefs)
                => windowData'[a] = windowData[a]]_vars
    /\ [](\A a \in Apps : AwaitsLayout(a) => ENABLED LayoutPass)
    /\ \A a \in Apps :
          (AwaitsLayout(a) /\ a \in windowRefs)
              ~> (~AwaitsLayout(a) \/ a \notin windowRefs)

\* The home window opened behind the landing page, laid out after the login.
C25_Witness ==
    /\ windowRefs # {}
    /\ windowData[HomeApp].isOpen
    /\ ~windowData[HomeApp].needsLayout
    /\ Resolved(windowData[HomeApp])
    /\ ~windowData[HomeApp].userSized
    /\ zIndexCounter = INITIAL_Z_COUNTER + 1


\* C26: a pointer-move during a drag session changes only the position of
\* the dragged window and sets its userPositioned flag; every other field
\* of that window and every other window are unchanged.
C26_DragMoveFrame ==
    [][(PointerMoveStep /\ dragStateRef # <<>>) =>
         LET appId == dragStateRef[1].appId
         IN  /\ windowData'[appId] =
                  [windowData[appId] EXCEPT
                     !.position = windowData'[appId].position,
                     !.userPositioned = TRUE]
             /\ \A other \in DOMAIN windowData \ {appId} :
                  windowData'[other] = windowData[other]
      ]_vars

\* A window dragged into the top-left corner of the layer while its size was
\* still unresolved.
C26_Witness ==
    /\ dragStateRef # <<>>
    /\ LET data == windowData[dragStateRef[1].appId]
       IN  /\ data.isOpen
           /\ ~data.isMaximized
           /\ data.userPositioned
           /\ data.size.width = Null
           /\ data.position = [left |-> WINDOW_MARGIN, top |-> WINDOW_MARGIN]


\* A registry operation or a layout pass, on any window.
RegistryOrLayoutStep ==
    \/ \E appId \in Apps : OpenApp(appId)
    \/ \E appId \in Apps : CloseWindow(appId)
    \/ \E appId \in Apps : MinimizeWindow(appId)
    \/ \E appId \in Apps : ToggleMaximize(appId)
    \/ LayoutPass

\* C27: an interaction session is ended only by pointer-up: a step that
\* turns a session reference back to null is a pointer-up, and openApp,
\* closeWindow, minimizeWindow, toggleMaximize and the layout pass leave
\* both session references as they are, also for the session's own window.
C27_SessionEndsOnlyOnPointerUp ==
    [][/\ (dragStateRef # <<>> /\ dragStateRef' = <<>>) => HandleMouseUp
       /\ (resizeStateRef # <<>> /\ resizeStateRef' = <<>>) => HandleMouseUp
       /\ RegistryOrLayoutStep => UNCHANGED <<dragStateRef, resizeStateRef>>
      ]_vars

\* A drag session whose window was closed before the pointer went up.
C27_Witness ==
    /\ dragStateRef # <<>>
    /\ ~windowData[dragStateRef[1].appId].isOpen
    /\ dragStateRef[1].appId \notin SeqRange(openWindows)


\* C28: in every reachable state a maximized window has the maximized
\* geometry: position (margin, margin) and size
\* (max(boundsWidth - 2*margin, minWidth), max(boundsHeight - 2*margin, minHeight)).
C28_MaximizedGeometry ==
    \A a \in DOMAIN windowData :
       windowData[a].isMaximized =>
          /\ windowData[a].position =
               [left |-> WINDOW_MARGIN, top |-> WINDOW_MARGIN]
          /\ windowData[a].size =
               [width |-> Max2(getBounds.width - 2 * WINDOW_MARGIN, WINDOW_MIN_WIDTH),
                height |-> Max2(getBounds.height - 2 * WINDOW_MARGIN, WINDOW_MIN_HEIGHT)]


\* C29: the ordered list of open windows and the window table agree: a
\* catalog id is in openWindows exactly when its isOpen flag is true, and
\* openWindows holds no id twice.
C29_OpenListAgrees ==
    /\ \A a \in DOMAIN windowData :
          (a \in SeqRange(openWindows)) <=> windowData[a].isOpen
    /\ \A i, j \in 1..Len(openWindows) :
          openWindows[i] = openWindows[j] => i = j

\* Both windows open, the first one opened again after a close.
C29_Witness ==
    /\ openWindows = <<"wallet", "home">>
    /\ windowData["home"].isOpen
    /\ windowData["wallet"].isOpen

\* C30: a window that is open with needsLayout false has a resolved size:
\* size.width and size.height are both non-null.
C30_ActiveHasSize ==
    \A a \in DOMAIN windowData :
       (windowData[a].isOpen /\ ~windowData[a].needsLayout) =>
          /\ windowData[a].size.width # Null
          /\ windowData[a].size.height # Null

\* An open window past its layout pass.
C30_Witness ==
    \E a \in DOMAIN windowData :
       /\ windowData[a].isOpen
       /\ ~windowData[a].needsLayout
       /\ ~windowData[a].isMaximized
       /\ ~windowData[a].userSized
       /\ Resolved(windowData[a])

====
